---- MODULE Spec2Model ----
(***************************************************************************)
(* Model of core/bin/qdrant/create_collection.rs: the one-shot tool that   *)
(* validates a (provider, model) pair, asks the operator to confirm, then  *)
(* creates one Qdrant collection and SHARD_KEY_COUNT shard keys on it.     *)
(*                                                                         *)
(* One action per step of main / create_qdrant_collection between two      *)
(* suspension points (the awaits and the blocking confirmation).           *)
(***************************************************************************)
EXTENDS Integers, Sequences, FiniteSets, TLC

VARIABLES
    provider,        \* Args.provider
    model,           \* Args.model
    cluster,         \* Args.cluster
    pc,              \* position of the single thread of control
    collection_name, \* local collection_name ("" before it is computed)
    i,               \* loop variable of `for i in 0..SHARD_KEY_COUNT`
    n_build,         \* number of QdrantClients::build() calls made
    prompts,         \* texts handed to utils::confirm, in order
    answers,         \* what utils::confirm returned, in order
    stdout,          \* lines printed with println!
    calls,           \* requests handed to raw_client, in order
    responses,       \* outcome of each request, in order ("true", "false", "error")
    err,             \* the error that ended the run ("" while there is none)
    exit_code,       \* process exit status (NoExit while running)
    srv_collections, \* cluster side: collections that exist, with their configuration
    srv_shard_keys,  \* cluster side: <<collection, shard key>> pairs that exist
    others,          \* the other invocations of the tool: finished or suspended runs
    srv_at_start     \* what the cluster held when the current invocation started

vars == <<provider, model, cluster, pc, collection_name, i, n_build, prompts,
          answers, stdout, calls, responses, err, exit_code,
          srv_collections, srv_shard_keys, others, srv_at_start>>

(***************************************************************************)
(* Collaborators that live outside this file: the provider/model registry  *)
(* and the cluster connection registry.                                    *)
(***************************************************************************)

\* The 24 of "Then, we create the 24 shard_keys."
SHARD_KEY_COUNT == 24

\* Display strings of the ProviderID values drawn as inputs.
ProviderIDs == {"openai", "azure_openai", "mistral"}

\* Display strings of the SupportedEmbedderModels values drawn as inputs.
ModelIDs == {"text-embedding-3-large-1536", "mistral-embed"}

\* Display strings of the QdrantCluster values drawn as inputs.
Clusters == {"cluster-0", "cluster-1"}

\* EmbedderProvidersModelMap: the models each provider supports.
SupportedModels(p) ==
    CASE p = "openai"       -> {"text-embedding-3-large-1536"}
      [] p = "azure_openai" -> {"text-embedding-3-large-1536"}
      [] p = "mistral"      -> {"mistral-embed"}
      [] OTHER              -> {}

is_model_supported(p, m) == m \in SupportedModels(p)

\* embedder.embedding_size() of provider(p).embedder(m).
embedding_size(p, m) ==
    CASE m = "text-embedding-3-large-1536" -> 1536
      [] m = "mistral-embed"               -> 1024
      [] OTHER                             -> 0

\* client.collection_prefix() of the client of cluster c.
collection_prefix(c) == IF c = "cluster-0" THEN "c1" ELSE "c2"

\* client.shard_key_prefix() of the client of cluster c.
shard_key_prefix(c) == IF c = "cluster-0" THEN "sk1" ELSE "sk2"

(***************************************************************************)
(* Pure helpers of create_qdrant_collection.                               *)
(***************************************************************************)

\* Variant: the provider is left out of the name.
CollectionName_NoProvider(prefix, p, m) == prefix \o "_" \o m

\* format!("{}_{}_{}", client.collection_prefix(), provider_id, model_id)
CollectionName(prefix, p, m) == prefix \o "_" \o p \o "_" \o m

\* Variant: the index is reduced to its last digit.
ShardKey_LastDigit(prefix, k) == prefix \o "_" \o ToString(k % 10)

\* format!("{}_{}", client.shard_key_prefix(), i)
ShardKey(prefix, k) == prefix \o "_" \o ToString(k)

\* The text handed to utils::confirm.
ConfirmPrompt(name, c) ==
    "Are you sure you want to create collection " \o name \o " on cluster " \o c \o "?"

\* Variant: the vector size is hard-coded instead of taken from the embedder.
CreateCollectionRequest_FixedSize(name, size) ==
    [ op                       |-> "create_collection",
      collection_name          |-> name,
      size                     |-> 1536,
      distance                 |-> "Cosine",
      on_disk                  |-> TRUE,
      hnsw_payload_m           |-> 16,
      hnsw_m                   |-> 0,
      memmap_threshold         |-> 16384,
      quantization             |-> "Scalar",
      quantization_type        |-> "Int8",
      quantile_percent         |-> 99,
      always_ram               |-> TRUE,
      on_disk_payload          |-> TRUE,
      sharding_method          |-> "Custom",
      shard_number             |-> 2,
      replication_factor       |-> 2,
      write_consistency_factor |-> 1 ]

\* The qdrant::CreateCollection request.
CreateCollectionRequest(name, size) ==
    [ op                       |-> "create_collection",
      collection_name          |-> name,
      size                     |-> size,
      distance                 |-> "Cosine",
      on_disk                  |-> TRUE,
      hnsw_payload_m           |-> 16,
      hnsw_m                   |-> 0,
      memmap_threshold         |-> 16384,
      quantization             |-> "Scalar",
      quantization_type        |-> "Int8",
      quantile_percent         |-> 99,
      always_ram               |-> TRUE,
      on_disk_payload          |-> TRUE,
      sharding_method          |-> "Custom",
      shard_number             |-> 2,
      replication_factor       |-> 2,
      write_consistency_factor |-> 1 ]

\* Variant: the shard number and replication factor are passed per key.
CreateShardKeyRequest_Overrides(name, key) ==
    [ op                 |-> "create_shard_key",
      collection_name    |-> name,
      key_type           |-> "Keyword",
      key                |-> key,
      shard_number       |-> "Some(2)",
      replication_factor |-> "Some(2)",
      placement          |-> << >> ]

\* The arguments of raw_client.create_shard_key.
CreateShardKeyRequest(name, key) ==
    [ op                 |-> "create_shard_key",
      collection_name    |-> name,
      key_type           |-> "Keyword",
      key                |-> key,
      shard_number       |-> "None",
      replication_factor |-> "None",
      placement          |-> << >> ]

NoExit == -1

Outcomes == {"true", "false", "error"}

\* Variant: main drops the error and returns Ok(()).
Exit_ErrorDropped(code, e) ==
    /\ pc' = "exited"
    /\ exit_code' = 0
    /\ err' = e

\* The run ends: main returns Err(e) (status 1) or process::exit(code).
Exit(code, e) ==
    /\ pc' = "exited"
    /\ exit_code' = code
    /\ err' = e

(***************************************************************************)
(* The state after Args::parse().                                          *)
(***************************************************************************)
Init ==
    /\ provider \in ProviderIDs
    /\ model \in ModelIDs
    /\ cluster \in Clusters
    /\ pc = "main"
    /\ collection_name = ""
    /\ i = 0
    /\ n_build = 0
    /\ prompts = << >>
    /\ answers = << >>
    /\ stdout = << >>
    /\ calls = << >>
    /\ responses = << >>
    /\ err = ""
    /\ exit_code = NoExit
    /\ srv_collections = {}
    /\ srv_shard_keys = {}
    /\ others = << >>
    /\ srv_at_start = <<{}, {}>>

\* Variant: main goes on to create_qdrant_collection without the validation.
Validate_Unchecked ==
    /\ pc = "main"
    /\ pc' = "build"
    /\ n_build' = n_build + 1
    /\ UNCHANGED <<others, srv_at_start, provider, model, cluster, collection_name, i, prompts, answers,
                   stdout, calls, responses, err, exit_code, srv_collections,
                   srv_shard_keys>>

\* main, up to the first await: the validation of the pair.
Validate ==
    /\ pc = "main"
    /\ IF ~is_model_supported(provider, model)
         THEN /\ Exit(1, "Error: Model " \o model \o " is not available for provider "
                         \o provider \o ".")
              /\ UNCHANGED n_build
         ELSE /\ pc' = "build"
              /\ n_build' = n_build + 1
              /\ UNCHANGED <<err, exit_code>>
    /\ UNCHANGED <<others, srv_at_start, provider, model, cluster, collection_name, i, prompts, answers,
                   stdout, calls, responses, srv_collections, srv_shard_keys>>

\* QdrantClients::build().await? returns; on Ok the name is derived, announced
\* and the confirmation is asked.
BuildDone ==
    /\ pc = "build"
    /\ \E ok \in BOOLEAN :
         IF ok
           THEN LET name == CollectionName(collection_prefix(cluster), provider, model)
                IN  /\ collection_name' = name
                    /\ stdout' = Append(stdout, "About to create collection " \o name
                                                \o " on cluster " \o cluster)
                    /\ prompts' = Append(prompts, ConfirmPrompt(name, cluster))
                    /\ pc' = "confirm"
                    /\ UNCHANGED <<err, exit_code>>
           ELSE /\ Exit(1, "build")
                /\ UNCHANGED <<collection_name, stdout, prompts>>
    /\ UNCHANGED <<others, srv_at_start, provider, model, cluster, i, n_build, answers, calls, responses,
                   srv_collections, srv_shard_keys>>

\* Variant: the answer of utils::confirm is not looked at.
Confirm_AnswerIgnored ==
    /\ pc = "confirm"
    /\ \E a \in {"true", "false", "error"} :
         /\ answers' = Append(answers, a)
         /\ IF a \in {"true", "false"}
              THEN /\ calls' = Append(calls,
                          CreateCollectionRequest(collection_name,
                                                  embedding_size(provider, model)))
                   /\ pc' = "create_collection"
                   /\ UNCHANGED <<err, exit_code>>
              ELSE /\ Exit(1, "confirm")
                   /\ UNCHANGED calls
    /\ UNCHANGED <<others, srv_at_start, provider, model, cluster, collection_name, i, n_build, prompts,
                   stdout, responses, srv_collections, srv_shard_keys>>

\* utils::confirm(..)? returns; on true the create_collection request is sent.
Confirm ==
    /\ pc = "confirm"
    /\ \E a \in {"true", "false", "error"} :
         /\ answers' = Append(answers, a)
         /\ CASE a = "true" ->
                   /\ calls' = Append(calls,
                          CreateCollectionRequest(collection_name,
                                                  embedding_size(provider, model)))
                   /\ pc' = "create_collection"
                   /\ UNCHANGED <<err, exit_code>>
              [] a = "false" ->
                   /\ Exit(1, "Aborted")
                   /\ UNCHANGED calls
              [] OTHER ->
                   /\ Exit(1, "confirm")
                   /\ UNCHANGED calls
    /\ UNCHANGED <<others, srv_at_start, provider, model, cluster, collection_name, i, n_build, prompts,
                   stdout, responses, srv_collections, srv_shard_keys>>

\* Variant: the requests for all remaining keys are sent at once.
ShardKeyLoop_FanOut(k) ==
    /\ i' = k
    /\ IF k < SHARD_KEY_COUNT
         THEN /\ calls' = calls \o
                     [j \in 1..(SHARD_KEY_COUNT - k) |->
                         CreateShardKeyRequest(collection_name,
                             ShardKey(shard_key_prefix(cluster), k + j - 1))]
              /\ pc' = "create_shard_key"
              /\ UNCHANGED <<err, exit_code>>
         ELSE /\ Exit(0, "")
              /\ UNCHANGED calls

\* Variant: the range of the loop is one short.
ShardKeyLoop_OneShort(k) ==
    /\ i' = k
    /\ IF k < SHARD_KEY_COUNT - 1
         THEN /\ calls' = Append(calls,
                     CreateShardKeyRequest(collection_name,
                                           ShardKey(shard_key_prefix(cluster), k)))
              /\ pc' = "create_shard_key"
              /\ UNCHANGED <<err, exit_code>>
         ELSE /\ Exit(0, "")
              /\ UNCHANGED calls

\* The head of `for i in 0..SHARD_KEY_COUNT` with i = k: either the request for
\* key k is sent, or the range is exhausted and the run returns Ok(()).
ShardKeyLoop(k) ==
    /\ i' = k
    /\ IF k < SHARD_KEY_COUNT
         THEN /\ calls' = Append(calls,
                     CreateShardKeyRequest(collection_name,
                                           ShardKey(shard_key_prefix(cluster), k)))
              /\ pc' = "create_shard_key"
              /\ UNCHANGED <<err, exit_code>>
         ELSE /\ Exit(0, "")
              /\ UNCHANGED calls

\* What the cluster holds after answering a create_collection request: the
\* collection exists when the answer is true, and may exist when the exchange
\* broke after the request was received. A name that exists already is
\* rejected (result = false or an error), one request at a time.
ServeCreateCollection(req, r, applied) ==
    /\ (\E c \in srv_collections : c.collection_name = req.collection_name) =>
          (r # "true" /\ ~applied)
    /\ IF r = "true" \/ (r = "error" /\ applied)
         THEN srv_collections' = srv_collections \cup {req}
         ELSE UNCHANGED srv_collections

\* What the cluster holds after answering a create_shard_key request.
ServeCreateShardKey(req, r, applied) ==
    /\ <<req.collection_name, req.key>> \in srv_shard_keys => (r # "true" /\ ~applied)
    /\ IF r = "true" \/ (r = "error" /\ applied)
         THEN srv_shard_keys' = srv_shard_keys \cup {<<req.collection_name, req.key>>}
         ELSE UNCHANGED srv_shard_keys

\* Variant: res.result is not looked at.
CreateCollectionResponse_ResultIgnored ==
    /\ pc = "create_collection"
    /\ \E r \in Outcomes, applied \in BOOLEAN :
         /\ responses' = Append(responses, r)
         /\ ServeCreateCollection(calls[Len(calls)], r, applied)
         /\ IF r \in {"true", "false"}
              THEN /\ stdout' = Append(stdout, "Done creating collection "
                                   \o collection_name \o " on cluster " \o cluster)
                   /\ ShardKeyLoop(0)
              ELSE /\ Exit(1, "transport")
                   /\ UNCHANGED <<stdout, calls, i>>
    /\ UNCHANGED <<others, srv_at_start, provider, model, cluster, collection_name, n_build, prompts,
                   answers, srv_shard_keys>>

\* raw_client.create_collection(..).await? returns and res.result is matched.
CreateCollectionResponse ==
    /\ pc = "create_collection"
    /\ \E r \in Outcomes, applied \in BOOLEAN :
         /\ responses' = Append(responses, r)
         /\ ServeCreateCollection(calls[Len(calls)], r, applied)
         /\ CASE r = "true" ->
                   /\ stdout' = Append(stdout, "Done creating collection "
                                   \o collection_name \o " on cluster " \o cluster)
                   /\ ShardKeyLoop(0)
              [] r = "false" ->
                   /\ Exit(1, "Collection not created!")
                   /\ UNCHANGED <<stdout, calls, i>>
              [] OTHER ->
                   /\ Exit(1, "transport")
                   /\ UNCHANGED <<stdout, calls, i>>
    /\ UNCHANGED <<others, srv_at_start, provider, model, cluster, collection_name, n_build, prompts,
                   answers, srv_shard_keys>>

\* Variant: a transport error on a shard key is retried once.
CreateShardKeyResponse_RetriesOnce ==
    /\ pc = "create_shard_key"
    /\ \E r \in Outcomes, applied \in BOOLEAN :
         /\ responses' = Append(responses, r)
         /\ ServeCreateShardKey(calls[Len(calls)], r, applied)
         /\ CASE r = "true" ->
                   /\ UNCHANGED stdout
                   /\ ShardKeyLoop(i + 1)
              [] r = "false" ->
                   /\ Exit(1, "Collection not created!")
                   /\ UNCHANGED <<stdout, calls, i>>
              [] OTHER ->
                   IF Len(calls) = i + 2
                     THEN /\ calls' = Append(calls, calls[Len(calls)])
                          /\ UNCHANGED <<stdout, i, pc, err, exit_code>>
                     ELSE /\ Exit(1, "transport")
                          /\ UNCHANGED <<stdout, calls, i>>
    /\ UNCHANGED <<others, srv_at_start, provider, model, cluster, collection_name, n_build, prompts,
                   answers, srv_collections>>

\* Variant: after a false result the run holds instead of returning the error.
CreateShardKeyResponse_Holds ==
    /\ pc = "create_shard_key"
    /\ \E r \in Outcomes, applied \in BOOLEAN :
         /\ responses' = Append(responses, r)
         /\ ServeCreateShardKey(calls[Len(calls)], r, applied)
         /\ CASE r = "true" ->
                   /\ UNCHANGED stdout
                   /\ ShardKeyLoop(i + 1)
              [] r = "false" ->
                   /\ pc' = "held"
                   /\ UNCHANGED <<stdout, calls, i, err, exit_code>>
              [] OTHER ->
                   /\ Exit(1, "transport")
                   /\ UNCHANGED <<stdout, calls, i>>
    /\ UNCHANGED <<others, srv_at_start, provider, model, cluster, collection_name, n_build, prompts,
                   answers, srv_collections>>

\* Variant: a false operation_result.result does not end the loop.
CreateShardKeyResponse_FalseSkipped ==
    /\ pc = "create_shard_key"
    /\ \E r \in Outcomes, applied \in BOOLEAN :
         /\ responses' = Append(responses, r)
         /\ ServeCreateShardKey(calls[Len(calls)], r, applied)
         /\ IF r \in {"true", "false"}
              THEN /\ UNCHANGED stdout
                   /\ ShardKeyLoop(i + 1)
              ELSE /\ Exit(1, "transport")
                   /\ UNCHANGED <<stdout, calls, i>>
    /\ UNCHANGED <<others, srv_at_start, provider, model, cluster, collection_name, n_build, prompts,
                   answers, srv_collections>>

\* Variant: a failed shard key makes the run delete the collection again.
CreateShardKeyResponse_RollsBack ==
    /\ pc = "create_shard_key"
    /\ \E r \in Outcomes, applied \in BOOLEAN :
         /\ CASE r = "true" ->
                   /\ responses' = Append(responses, r)
                   /\ ServeCreateShardKey(calls[Len(calls)], r, applied)
                   /\ UNCHANGED <<stdout, srv_collections>>
                   /\ ShardKeyLoop(i + 1)
              [] OTHER ->
                   /\ responses' = Append(Append(responses, r), "true")
                   /\ calls' = Append(calls, [op |-> "delete_collection",
                                              collection_name |-> collection_name])
                   /\ srv_collections' = {}
                   /\ srv_shard_keys' = {}
                   /\ Exit(1, "Collection not created!")
                   /\ UNCHANGED <<stdout, i>>
    /\ UNCHANGED <<others, srv_at_start, provider, model, cluster, collection_name, n_build, prompts,
                   answers>>

\* raw_client.create_shard_key(..).await? returns for key i and
\* operation_result.result is matched; on true the loop goes on with i + 1.
CreateShardKeyResponse ==
    /\ pc = "create_shard_key"
    /\ \E r \in Outcomes, applied \in BOOLEAN :
         /\ responses' = Append(responses, r)
         /\ ServeCreateShardKey(calls[Len(calls)], r, applied)
         /\ CASE r = "true" ->
                   /\ stdout' = Append(stdout, "Done creating shard key ["
                                   \o ShardKey(shard_key_prefix(cluster), i)
                                   \o "] for collection " \o collection_name
                                   \o " on cluster " \o cluster)
                   /\ ShardKeyLoop(i + 1)
              [] r = "false" ->
                   /\ Exit(1, "Collection not created!")
                   /\ UNCHANGED <<stdout, calls, i>>
              [] OTHER ->
                   /\ Exit(1, "transport")
                   /\ UNCHANGED <<stdout, calls, i>>
    /\ UNCHANGED <<others, srv_at_start, provider, model, cluster, collection_name, n_build, prompts,
                   answers, srv_collections>>

Next ==
    \/ Validate
    \/ BuildDone
    \/ Confirm
    \/ CreateCollectionResponse
    \/ CreateShardKeyResponse

Spec == Init /\ [][Next]_vars

(***************************************************************************)
(* Further invocations of the tool for the same (cluster, provider, model) *)
(* against the same cluster. The variables above hold the invocation in    *)
(* focus; `others` holds the state of the remaining ones.                  *)
(***************************************************************************)

\* Number of times the operator invokes the tool again after a run has ended.
MaxReruns == 2

\* The state of the invocation in focus.
Locals ==
    [ pc |-> pc, collection_name |-> collection_name, i |-> i, n_build |-> n_build,
      prompts |-> prompts, answers |-> answers, stdout |-> stdout, calls |-> calls,
      responses |-> responses, err |-> err, exit_code |-> exit_code ]

\* The state of an invocation after Args::parse().
FreshLocals ==
    [ pc |-> "main", collection_name |-> "", i |-> 0, n_build |-> 0,
      prompts |-> << >>, answers |-> << >>, stdout |-> << >>, calls |-> << >>,
      responses |-> << >>, err |-> "", exit_code |-> NoExit ]

\* The invocation with state l comes into focus.
Load(l) ==
    /\ pc' = l.pc
    /\ collection_name' = l.collection_name
    /\ i' = l.i
    /\ n_build' = l.n_build
    /\ prompts' = l.prompts
    /\ answers' = l.answers
    /\ stdout' = l.stdout
    /\ calls' = l.calls
    /\ responses' = l.responses
    /\ err' = l.err
    /\ exit_code' = l.exit_code

\* The operator invokes the tool again, with the same arguments, after the
\* previous process has exited.
Rerun ==
    /\ pc = "exited"
    /\ Len(others) < MaxReruns
    /\ others' = Append(others, Locals)
    /\ Load(FreshLocals)
    /\ srv_at_start' = <<srv_collections, srv_shard_keys>>
    /\ UNCHANGED <<provider, model, cluster, srv_collections, srv_shard_keys>>

\* Two processes run at the same time: the one in focus is suspended and
\* another one that has not exited goes on.
Switch ==
    /\ \E k \in DOMAIN others :
         /\ others[k].pc # "exited"
         /\ others' = [others EXCEPT ![k] = Locals]
         /\ Load(others[k])
    /\ UNCHANGED <<provider, model, cluster, srv_collections, srv_shard_keys,
                   srv_at_start>>

\* One invocation after the other.
SpecRerun == Init /\ [][Next \/ Rerun]_vars

\* Two invocations started together.
InitConcurrent ==
    /\ provider \in ProviderIDs
    /\ model \in ModelIDs
    /\ cluster \in Clusters
    /\ pc = "main"
    /\ collection_name = ""
    /\ i = 0
    /\ n_build = 0
    /\ prompts = << >>
    /\ answers = << >>
    /\ stdout = << >>
    /\ calls = << >>
    /\ responses = << >>
    /\ err = ""
    /\ exit_code = NoExit
    /\ srv_collections = {}
    /\ srv_shard_keys = {}
    /\ others = <<FreshLocals>>
    /\ srv_at_start = <<{}, {}>>

SpecConcurrent == InitConcurrent /\ [][Next \/ Switch]_vars

\* The run under the scheduling the program relies on: the operator answers
\* the prompt, every awaited call returns, and the thread of control goes on.
FairSpec == Spec /\ WF_vars(Next)

(***************************************************************************)
(* Vocabulary of the properties.                                           *)
(***************************************************************************)

\* t occurs in s as a contiguous substring.
Contains(s, t) ==
    \E a \in 1..(Len(s) - Len(t) + 1) : SubSeq(s, a, a + Len(t) - 1) = t

\* Positions in the request log of the requests with operation o.
CallsOf(o) == {p \in DOMAIN calls : calls[p].op = o}

\* The documented name of shard key k of cluster c: "{shard-key-prefix}_{k}".
ExpectedShardKey(c, k) == shard_key_prefix(c) \o "_" \o ToString(k)

\* Positions of the create_shard_key requests for index k.
ShardIndexCalls(k) ==
    {p \in CallsOf("create_shard_key") : calls[p].key = ExpectedShardKey(cluster, k)}

\* The request at position p has been answered, and not with result = true.
Failed(p) == p \in DOMAIN responses /\ responses[p] # "true"

\* The run is over and every step of it succeeded.
FullSuccess ==
    /\ pc = "exited"
    /\ is_model_supported(provider, model)
    /\ answers = <<"true">>
    /\ Len(responses) = Len(calls)
    /\ Cardinality(CallsOf("create_collection")) = 1
    /\ \A p \in DOMAIN responses : responses[p] = "true"

(***************************************************************************)
(* C1. With an unsupported (provider, model) pair the run can only end     *)
(* with exit status 1, and at no point of it has a client been built, a    *)
(* confirmation asked or a request sent to the cluster.                    *)
(***************************************************************************)
C1_UnsupportedExitsBeforeCluster ==
    ~is_model_supported(provider, model) =>
        /\ pc \in {"main", "exited"}
        /\ pc = "exited" => exit_code = 1
        /\ n_build = 0
        /\ prompts = << >> /\ answers = << >>
        /\ calls = << >>
        /\ srv_collections = {} /\ srv_shard_keys = {}

C1_Witness ==
    ~is_model_supported(provider, model) /\ pc = "exited" /\ exit_code = 1

(***************************************************************************)
(* C2. Any request to the cluster is preceded by a prompt that contains    *)
(* the collection name of the create_collection request and the cluster,   *)
(* answered with yes; after a "no" no request is ever sent and the run     *)
(* has failed with "Aborted".                                              *)
(***************************************************************************)
C2_ConfirmBeforeCreate ==
    /\ calls # << >> =>
          /\ calls[1].op = "create_collection"
          /\ Len(prompts) = 1 /\ answers = <<"true">>
          /\ calls[1].collection_name =
                 CollectionName(collection_prefix(cluster), provider, model)
          /\ Contains(prompts[1], calls[1].collection_name)
          /\ Contains(prompts[1], cluster)
    /\ (\E a \in DOMAIN answers : answers[a] = "false") =>
          /\ calls = << >>
          /\ pc = "exited" /\ err = "Aborted" /\ exit_code # 0

C2_Witness ==
    /\ answers = <<"false">> /\ err = "Aborted" /\ calls = << >>

(***************************************************************************)
(* C3. A create_shard_key request exists only when the create_collection   *)
(* request of the run was answered with result = true; after a false       *)
(* result or a transport error the create_collection request stays the     *)
(* only request, and the run has failed (a false result with               *)
(* "Collection not created!").                                             *)
(***************************************************************************)
C3_ShardKeysOnlyAfterCollection ==
    /\ CallsOf("create_shard_key") # {} =>
          /\ calls[1].op = "create_collection"
          /\ responses # << >> /\ responses[1] = "true"
    /\ Failed(1) =>
          /\ Len(calls) = 1
          /\ pc = "exited" /\ exit_code # 0
          /\ responses[1] = "false" => err = "Collection not created!"

C3_Witness ==
    /\ Len(calls) = 1 /\ responses = <<"false">>
    /\ err = "Collection not created!"

(***************************************************************************)
(* C4. When the create_shard_key request for index k was answered with a   *)
(* transport error or result = false, the run is over, no request for an   *)
(* index above k exists and each index below k was requested exactly once. *)
(***************************************************************************)
C4_ShardKeyFailureStopsLoop ==
    \A k \in 0..(SHARD_KEY_COUNT - 1) :
        \A p \in ShardIndexCalls(k) :
            Failed(p) =>
                /\ pc = "exited"
                /\ p = Len(calls)
                /\ Cardinality(ShardIndexCalls(k)) = 1
                /\ \A j \in (k + 1)..(SHARD_KEY_COUNT - 1) : ShardIndexCalls(j) = {}
                /\ \A j \in 0..(k - 1) : Cardinality(ShardIndexCalls(j)) = 1

C4_Witness ==
    \E p \in ShardIndexCalls(5) :
        Failed(p) /\ \A j \in 0..4 : Cardinality(ShardIndexCalls(j)) = 1

(***************************************************************************)
(* C5. A run that ended with every step successful has sent exactly        *)
(* SHARD_KEY_COUNT create_shard_key requests, the j-th of them (from 0)    *)
(* for the key {shard-key-prefix}_j.                                       *)
(***************************************************************************)
C5_SuccessCreatesAllShardKeys ==
    FullSuccess =>
        /\ Cardinality(CallsOf("create_shard_key")) = SHARD_KEY_COUNT
        /\ Len(calls) = SHARD_KEY_COUNT + 1
        /\ \A j \in 0..(SHARD_KEY_COUNT - 1) :
              /\ calls[j + 2].op = "create_shard_key"
              /\ calls[j + 2].key = ExpectedShardKey(cluster, j)
              /\ ShardIndexCalls(j) = {j + 2}

C5_Witness ==
    FullSuccess /\ Len(calls) = SHARD_KEY_COUNT + 1

(***************************************************************************)
(* C6. The exit status is 0 exactly when the pair was supported, the       *)
(* operator confirmed, and the create_collection request and all           *)
(* SHARD_KEY_COUNT create_shard_key requests returned true; every other    *)
(* way the run ends gives a non-zero status.                               *)
(***************************************************************************)
C6_ExitZeroIffFullSuccess ==
    /\ pc # "exited" => exit_code = NoExit
    /\ pc = "exited" =>
          /\ exit_code # NoExit
          /\ exit_code = 0 <=>
                (FullSuccess /\ Cardinality(CallsOf("create_shard_key")) = SHARD_KEY_COUNT)
          /\ ~is_model_supported(provider, model) => exit_code # 0
          /\ (\E a \in DOMAIN answers : answers[a] # "true") => exit_code # 0
          /\ (\E p \in DOMAIN responses : responses[p] # "true") => exit_code # 0

C6_Witness ==
    pc = "exited" /\ exit_code = 0

(***************************************************************************)
(* C7. The run only ever sends create requests, and whatever a request of  *)
(* the run created is still in the cluster in every later state, the exit  *)
(* included: the collection with the configuration it was created with,    *)
(* and each shard key; in particular the keys 0..k-1 after the request     *)
(* for key k failed.                                                       *)
(***************************************************************************)
C7_NothingUndone ==
    /\ \A p \in DOMAIN calls : calls[p].op \in {"create_collection", "create_shard_key"}
    /\ \A p \in DOMAIN responses :
          responses[p] = "true" =>
              IF calls[p].op = "create_collection"
                THEN calls[p] \in srv_collections
                ELSE <<calls[p].collection_name, calls[p].key>> \in srv_shard_keys
    /\ \A c \in srv_collections : calls # << >> /\ c = calls[1]
    /\ \A k \in 0..(SHARD_KEY_COUNT - 1) :
          \A p \in ShardIndexCalls(k) :
              Failed(p) =>
                  /\ calls[1] \in srv_collections
                  /\ \A j \in 0..(k - 1) :
                        <<collection_name, ExpectedShardKey(cluster, j)>> \in srv_shard_keys

C7_Witness ==
    /\ pc = "exited"
    /\ \E p \in ShardIndexCalls(3) : Failed(p)
    /\ calls[1] \in srv_collections
    /\ \A j \in 0..2 : <<collection_name, ExpectedShardKey(cluster, j)>> \in srv_shard_keys

(***************************************************************************)
(* C8. Once derived, the collection name is the same wherever the run      *)
(* uses it (prompt, create_collection and create_shard_key requests), and  *)
(* no other supported (provider, model) pair gets that name on the same    *)
(* cluster.                                                                *)
(***************************************************************************)
C8_CollectionNameInjective ==
    /\ pc \in {"main", "build"} => collection_name = ""
    /\ collection_name # "" =>
          /\ collection_name = collection_prefix(cluster) \o "_" \o provider \o "_" \o model
          /\ \A p \in DOMAIN calls : calls[p].collection_name = collection_name
          /\ \A p \in DOMAIN prompts : Contains(prompts[p], collection_name)
          /\ \A q \in ProviderIDs, m \in ModelIDs :
                (is_model_supported(q, m) /\ <<q, m>> # <<provider, model>>) =>
                    CollectionName(collection_prefix(cluster), q, m) # collection_name

C8_Witness ==
    /\ collection_name # "" /\ Len(calls) > 1
    /\ \E q \in ProviderIDs : q # provider /\ is_model_supported(q, model)

(***************************************************************************)
(* C9. The shard-key names of a cluster for the indices 0..SHARD_KEY_COUNT-1*)
(* are pairwise distinct, and the name requested for index j is            *)
(* "{shard-key-prefix}_{j}" whatever the provider and the model are.       *)
(***************************************************************************)
C9_ShardKeyNamesDistinct ==
    /\ \A a, b \in 0..(SHARD_KEY_COUNT - 1) :
          a # b => ShardKey(shard_key_prefix(cluster), a)
                       # ShardKey(shard_key_prefix(cluster), b)
    /\ \A p, q \in CallsOf("create_shard_key") :
          p # q => calls[p].key # calls[q].key
    /\ \A p \in CallsOf("create_shard_key") :
          calls[p].key = ExpectedShardKey(cluster, p - 2)

C9_Witness ==
    Cardinality({calls[p].key : p \in CallsOf("create_shard_key")}) = SHARD_KEY_COUNT

(***************************************************************************)
(* C10. There is at most one create_collection request, and it carries the *)
(* embedding size of the model, Cosine distance, Custom sharding, 2        *)
(* shards, replication factor 2 and write-consistency factor 1.            *)
(***************************************************************************)
C10_CreateCollectionConfig ==
    /\ Cardinality(CallsOf("create_collection")) <= 1
    /\ \A p \in CallsOf("create_collection") :
          /\ calls[p].size = embedding_size(provider, model)
          /\ calls[p].distance = "Cosine"
          /\ calls[p].sharding_method = "Custom"
          /\ calls[p].shard_number = 2
          /\ calls[p].replication_factor = 2
          /\ calls[p].write_consistency_factor = 1

C10_Witness ==
    /\ CallsOf("create_collection") = {1}
    /\ model = "mistral-embed" /\ calls[1].size = 1024

(***************************************************************************)
(* C11. Nothing is retried: a run holds at most one create_collection      *)
(* request and at most one create_shard_key request per index, and a       *)
(* request answered with a transport error or result = false is the last   *)
(* request of the run, which is then over.                                 *)
(***************************************************************************)
C11_NoRetries ==
    /\ Cardinality(CallsOf("create_collection")) <= 1
    /\ \A k \in 0..(SHARD_KEY_COUNT - 1) : Cardinality(ShardIndexCalls(k)) <= 1
    /\ \A p \in DOMAIN calls :
          Failed(p) => p = Len(calls) /\ pc = "exited" /\ exit_code # 0

C11_Witness ==
    /\ pc = "exited"
    /\ Len(calls) = 8 /\ Failed(8) /\ responses[8] = "error"
    /\ \A p \in 1..7 : responses[p] = "true"

(***************************************************************************)
(* C12. At most one request is outstanding: the requests answered so far   *)
(* are all requests sent but possibly the last, a request is outstanding   *)
(* exactly while the run waits in one of the two awaits, and so every      *)
(* request after the first was sent when its predecessor had been answered.*)
(***************************************************************************)
C12_OneRequestOutstanding ==
    /\ Len(responses) <= Len(calls)
    /\ Len(calls) <= Len(responses) + 1
    /\ Len(calls) = Len(responses) + 1 <=> pc \in {"create_collection", "create_shard_key"}
    /\ \A p \in DOMAIN calls :
          (p > 1 /\ calls[p].op = "create_shard_key") => (p - 1) \in DOMAIN responses

C12_Witness ==
    /\ pc = "create_shard_key" /\ i = 7
    /\ Len(calls) = 9 /\ Len(responses) = 8

\* The shard keys whose create_shard_key request of this run returned true.
CreatedKeys ==
    {calls[p].key : p \in {q \in CallsOf("create_shard_key") :
                              q \in DOMAIN responses /\ responses[q] = "true"}}

\* The shard keys the cluster holds for the collection of this run.
ClusterKeys == {sk[2] : sk \in {x \in srv_shard_keys : x[1] = collection_name}}

\* The names of the first j shard keys of the cluster.
KeyPrefix(j) == {ExpectedShardKey(cluster, q) : q \in 0..(j - 1)}

(***************************************************************************)
(* C13. Once the create_collection request has returned true, the shard    *)
(* keys the run has created are {prefix_0, ..., prefix_{j-1}} for some j   *)
(* in 0..SHARD_KEY_COUNT, the collection is in the cluster and the keys    *)
(* the cluster holds for it are such a prefix too; after a failure this    *)
(* is the state the run leaves behind.                                     *)
(***************************************************************************)
C13_ShardKeysFormPrefix ==
    (responses # << >> /\ responses[1] = "true") =>
        /\ \E j \in 0..SHARD_KEY_COUNT : CreatedKeys = KeyPrefix(j)
        /\ calls[1] \in srv_collections
        /\ \E j \in 0..SHARD_KEY_COUNT : ClusterKeys = KeyPrefix(j)
        /\ CreatedKeys \subseteq ClusterKeys

C13_Witness ==
    /\ pc = "exited" /\ exit_code # 0
    /\ responses # << >> /\ responses[1] = "true"
    /\ CreatedKeys = KeyPrefix(4) /\ ClusterKeys = KeyPrefix(4)
    /\ Failed(6)

\* The error after the create_shard_key request for index k was answered with
\* result = false names the key or its index.
ShardKeyErrorNamesKey ==
    \A k \in 0..(SHARD_KEY_COUNT - 1) :
        \A p \in ShardIndexCalls(k) :
            (Failed(p) /\ responses[p] = "false") =>
                \/ Contains(err, ExpectedShardKey(cluster, k))
                \/ Contains(err, ToString(k))

(***************************************************************************)
(* C14. The error that ends the run carries its context: after a           *)
(* create_collection request answered with result = false it names the     *)
(* collection and the cluster, and after the create_shard_key request for  *)
(* index k answered with result = false it names the key or its index.     *)
(* (Stated for the errors this program words itself; the text of a         *)
(* transport error is the client library's.)                               *)
(***************************************************************************)
C14_ErrorsCarryContext ==
    /\ (Failed(1) /\ responses[1] = "false") =>
          Contains(err, collection_name) /\ Contains(err, cluster)
    /\ ShardKeyErrorNamesKey

\* The text main prints for an unsupported pair.
ValidationMessage ==
    "Error: Model " \o model \o " is not available for provider " \o provider \o "."

(***************************************************************************)
(* C15, as claimed. A run that fails for another reason than an            *)
(* unsupported pair does not end with the exit status of the validation    *)
(* error (the 1 of std::process::exit(1)).                                 *)
(***************************************************************************)
C15_ValidationStatusDistinguished ==
    (pc = "exited" /\ is_model_supported(provider, model) /\ exit_code # 0) =>
        exit_code # 1

(***************************************************************************)
(* C15, amended. Every failure ends with exit status 1, the unsupported    *)
(* pair like a declined confirmation, a transport error or a false result; *)
(* only success ends with 0. The validation error differs from the other   *)
(* failures in its message and in that no request was sent, not in its     *)
(* status.                                                                 *)
(***************************************************************************)
C15_FailuresShareStatusOne ==
    pc = "exited" =>
        /\ exit_code \in {0, 1}
        /\ exit_code = 0 <=> err = ""
        /\ ~is_model_supported(provider, model) =>
              /\ exit_code = 1
              /\ err = ValidationMessage
              /\ calls = << >>
        /\ (is_model_supported(provider, model) /\ exit_code # 0) =>
              /\ exit_code = 1
              /\ err # ValidationMessage

C15_Witness ==
    /\ pc = "exited" /\ is_model_supported(provider, model)
    /\ exit_code = 1 /\ Len(calls) = 3 /\ Failed(3)

(***************************************************************************)
(* C16. Every create_shard_key request names the collection of the run's   *)
(* create_collection request, gives its key as a Keyword key, and passes   *)
(* neither a shard number nor a replication factor (nor a placement).      *)
(***************************************************************************)
C16_ShardKeyRequestShape ==
    \A p \in CallsOf("create_shard_key") :
        /\ CallsOf("create_collection") = {1}
        /\ calls[p].collection_name = calls[1].collection_name
        /\ calls[p].key_type = "Keyword"
        /\ calls[p].shard_number = "None"
        /\ calls[p].replication_factor = "None"
        /\ calls[p].placement = << >>

C16_Witness ==
    /\ Cardinality(CallsOf("create_shard_key")) = 2
    /\ calls[3].collection_name = calls[1].collection_name
    /\ calls[3].key_type = "Keyword"

\* The run is over, in full success or in a failure, within the request budget.
Terminated ==
    /\ pc = "exited"
    /\ exit_code \in {0, 1}
    /\ exit_code = 0 =>
          FullSuccess /\ Cardinality(CallsOf("create_shard_key")) = SHARD_KEY_COUNT
    /\ exit_code = 1 => err # ""

(***************************************************************************)
(* C17. When the operator answers and every awaited call returns, the run  *)
(* eventually ends in full success or in a failure; it never holds more    *)
(* than one create_collection and SHARD_KEY_COUNT create_shard_key         *)
(* requests, and a run that is not over can always take a step.            *)
(***************************************************************************)
C17_RunTerminates ==
    /\ <>Terminated
    /\ [](pc # "exited" => ENABLED Next)
    /\ [](/\ Cardinality(CallsOf("create_collection")) <= 1
          /\ Cardinality(CallsOf("create_shard_key")) <= SHARD_KEY_COUNT)

C17_Witness ==
    /\ Terminated /\ exit_code = 1
    /\ answers = <<"true">>
    /\ Cardinality(CallsOf("create_shard_key")) = SHARD_KEY_COUNT

\* The collection name of the (cluster, provider, model) triple of the runs.
TripleName == collection_prefix(cluster) \o "_" \o provider \o "_" \o model

\* The cluster held the collection of the triple when the current run started.
ExistedAtStart == \E c \in srv_at_start[1] : c.collection_name = TripleName

\* The shard keys the cluster holds for the collection of the triple.
KeysOnCollection == {sk[2] : sk \in {x \in srv_shard_keys : x[1] = TripleName}}

\* Positions of the create_shard_key requests of the run with state l.
ShardCallsIn(l) == {p \in DOMAIN l.calls : l.calls[p].op = "create_shard_key"}

\* The run with state l got result = true for its create_collection request.
CreatedCollection(l) == l.responses # << >> /\ l.responses[1] = "true"

\* The run with state l ended on a create_shard_key request for index k that
\* was answered with result = false.
FailedAtKey(l, k) ==
    /\ l.pc = "exited"
    /\ Len(l.calls) = k + 2 /\ Len(l.responses) = k + 2
    /\ l.responses[k + 2] = "false"

\* All invocations, the one in focus first.
Runs == <<Locals>> \o others

(***************************************************************************)
(* C18. A re-run that starts when the cluster already holds the collection *)
(* of the triple gets no result = true for create_collection, sends no     *)
(* create_shard_key request and leaves the shard keys of the cluster as    *)
(* they were; so the keys k..SHARD_KEY_COUNT-1 missing after a run that    *)
(* failed at key k with result = false are still missing after every      *)
(* re-run.                                                                 *)
(***************************************************************************)
C18_RerunCreatesNoShardKeys ==
    /\ (others # << >> /\ ExistedAtStart) =>
          /\ responses # << >> => responses[1] # "true"
          /\ CallsOf("create_shard_key") = {}
          /\ srv_shard_keys = srv_at_start[2]
    /\ \A r \in DOMAIN others :
          \A k \in 0..(SHARD_KEY_COUNT - 1) :
              (CreatedCollection(others[r]) /\ FailedAtKey(others[r], k)) =>
                  KeysOnCollection = KeyPrefix(k)

C18_Witness ==
    /\ Len(others) = 2 /\ pc = "exited"
    /\ CreatedCollection(others[1]) /\ FailedAtKey(others[1], 3)
    /\ others[2].responses = <<"false">>
    /\ responses = <<"error">>
    /\ KeysOnCollection = KeyPrefix(3)

(***************************************************************************)
(* C19. Of two invocations for the same triple running at the same time,   *)
(* at most one gets result = true for create_collection, at most one       *)
(* sends any create_shard_key request, and no shard key is requested       *)
(* twice, within a run or across the two.                                  *)
(***************************************************************************)
C19_OneRunProvisions ==
    \A a, b \in DOMAIN Runs :
        /\ a # b => ~(CreatedCollection(Runs[a]) /\ CreatedCollection(Runs[b]))
        /\ a # b => (ShardCallsIn(Runs[a]) = {} \/ ShardCallsIn(Runs[b]) = {})
        /\ ShardCallsIn(Runs[a]) # {} => CreatedCollection(Runs[a])
        /\ \A p \in ShardCallsIn(Runs[a]), q \in ShardCallsIn(Runs[b]) :
              Runs[a].calls[p].key = Runs[b].calls[q].key => (a = b /\ p = q)

C19_Witness ==
    /\ Len(Runs) = 2
    /\ Runs[1].pc = "create_shard_key" /\ Cardinality(ShardCallsIn(Runs[1])) = 3
    /\ Runs[2].pc = "exited" /\ Runs[2].responses = <<"false">>


====
